---- MODULE Spec2Model ----
(***************************************************************************)
(* Model of the arsip-app backend (Fastify + drizzle): registration,       *)
(* login, bearer authentication, document upload, listing and retrieval.   *)
(* The document routes follow the current handler bodies (the variant with *)
(* the NaN check and the commented-out ownership check); the auth routes   *)
(* follow backend/src/routes/auth.ts.                                      *)
(***************************************************************************)
EXTENDS Integers, Sequences, FiniteSets, TLC

VARIABLES users, nextUserId, documents, nextDocId, files, pend, held, now,
          registered, uploaded, last,
          useAuthStore, localStorage, inFlight

\* the browser: the state of the auth store, the token item of localStorage,
\* and the request each store action is waiting for
browser == <<useAuthStore, localStorage, inFlight>>

\* the server and its clients
server == <<users, nextUserId, documents, nextDocId, files, pend, held, now,
            registered, uploaded, last>>

vars == <<users, nextUserId, documents, nextDocId, files, pend, held, now,
          registered, uploaded, last, useAuthStore, localStorage, inFlight>>

\* registered and uploaded are history variables: the credentials of every
\* registration answered 201 and the bytes of every upload answered 201

(***************************************************************************)
(* Bounds of the model.                                                    *)
(***************************************************************************)
NumClients == 2
NumEmails == 2
MaxFiles == 2
MaxTime == 8

(***************************************************************************)
(* Program constants.                                                      *)
(***************************************************************************)
SALT_ROUNDS == 10
TokenTTLDays == 7
MinPasswordLen == 6
MinNameLen == 2
MinTitleLen == 2
MaxTitleLen == 255
MaxDescriptionLen == 1000

JWT_SECRET == "JWT_SECRET"
baseUrl == "http://localhost:3000"

Clients == 1..NumClients
None == [none |-> TRUE]

(***************************************************************************)
(* Request inputs.                                                         *)
(***************************************************************************)
Email(i) == "user" \o ToString(i) \o "@x.io"
WellFormedEmails == {Email(i) : i \in 1..NumEmails}
EmailInputs == WellFormedEmails \cup {"not-an-email"}
PasswordInputs == {"hunter22", "s3cret99", "abc"}
NameInputs == {"Al", "A"}

RegisterInputs ==
  {[email |-> e, password |-> p, name |-> n] :
     e \in EmailInputs, p \in PasswordInputs, n \in NameInputs}

\* registrations that also ask for a role
RoleInputs == {"admin", "root"}

\* one well-formed registration per email
SignupInputs ==
  {[email |-> e, password |-> "hunter22", name |-> "Al"] : e \in WellFormedEmails}

LoginInputs ==
  {[email |-> e, password |-> p] : e \in EmailInputs, p \in PasswordInputs \cup {""}}

RoleSignupInputs ==
  SignupInputs \cup
  {[email |-> b.email, password |-> b.password, name |-> b.name, role |-> r] :
     b \in SignupInputs, r \in RoleInputs}

\* zod's .email() check, on the inputs above
IsEmail(s) == s \in WellFormedEmails

(***************************************************************************)
(* utils/response.ts                                                       *)
(***************************************************************************)
success(data, message, statusCode) ==
  [success |-> TRUE, statusCode |-> statusCode, message |-> message, data |-> data]

created(data, message) ==
  [success |-> TRUE, statusCode |-> 201, message |-> message, data |-> data]

error(statusCode, err, message, details) ==
  IF details = None
  THEN [success |-> FALSE, statusCode |-> statusCode, error |-> err, message |-> message]
  ELSE [success |-> FALSE, statusCode |-> statusCode, error |-> err, message |-> message,
        details |-> details]

badRequest(message, details) == error(400, "Bad Request", message, details)

unauthorized(message) == error(401, "Unauthorized", message, None)

forbidden(message) == error(403, "Forbidden", message, None)

notFound(message) == error(404, "Not Found", message, None)

conflict(message) == error(409, "Conflict", message, None)

FieldsOf(errors) == {errors[i].field : i \in 1..Len(errors)}

validationError(errors) ==
  LET errorsByField == [f \in FieldsOf(errors) |->
                          SelectSeq(errors, LAMBDA e : e.field = f)]
      errorMessage ==
        IF Len(errors) = 1 THEN <<errors[1].message>>
        ELSE IF Cardinality(FieldsOf(errors)) = 1
             THEN <<errors[1].field, "field has", Len(errors), "validation errors">>
             ELSE <<"Validation failed for", Cardinality(FieldsOf(errors)), "fields">>
  IN [success |-> FALSE, statusCode |-> 400, error |-> "Validation Error",
      message |-> errorMessage,
      details |-> [errors |-> errors, errorsByField |-> errorsByField]]

Reply(status, body) == [status |-> status, body |-> body]

(***************************************************************************)
(* validation/auth.ts and plugins/zod.ts                                   *)
(***************************************************************************)
Issue(field, message, code) == [field |-> field, message |-> message, code |-> code]

Check(failed, issue) == IF failed THEN <<issue>> ELSE <<>>

\* z.enum(['admin', 'user', 'guest'])
UserRole == {"admin", "user", "guest"}

registerSchema(body) ==
     Check(Len(body.email) = 0, Issue("email", "Email is required", "too_small"))
  \o Check(~IsEmail(body.email), Issue("email", "Invalid email format", "invalid_string"))
  \o Check(Len(body.password) = 0, Issue("password", "Password is required", "too_small"))
  \o Check(Len(body.password) < MinPasswordLen,
           Issue("password", "Password must be at least 6 characters", "too_small"))
  \o Check(Len(body.name) = 0, Issue("name", "Name is required", "too_small"))
  \o Check(Len(body.name) < MinNameLen,
           Issue("name", "Name must be at least 2 characters", "too_small"))
  \o Check("role" \in DOMAIN body /\ body.role \notin UserRole,
           Issue("role", "Invalid enum value", "invalid_enum_value"))

loginSchema(body) ==
     Check(Len(body.email) = 0, Issue("email", "Email is required", "too_small"))
  \o Check(~IsEmail(body.email), Issue("email", "Invalid email format", "invalid_string"))
  \o Check(Len(body.password) = 0, Issue("password", "Password is required", "too_small"))

\* the body schemas of the route options (registerSwaggerSchema.body and
\* loginSwaggerSchema.body), compiled by Fastify's validator: it runs before
\* the preHandler and stops at the first error
BodyMinPasswordLen == 6

AjvError(instancePath, keyword, message) ==
  [instancePath |-> instancePath, keyword |-> keyword, message |-> message]

registerBodySchema(body) ==
  IF ~IsEmail(body.email)
  THEN <<AjvError("/email", "format", "must match format email")>>
  ELSE IF Len(body.password) < BodyMinPasswordLen
  THEN <<AjvError("/password", "minLength", "must NOT have fewer than 6 characters")>>
  ELSE <<>>

loginBodySchema(body) ==
  IF ~IsEmail(body.email)
  THEN <<AjvError("/email", "format", "must match format email")>>
  ELSE <<>>

\* the error handler's answer to a validation error of the body schema
schemaValidation(validation) ==
  IF validation = <<>> THEN None
  ELSE Reply(400, badRequest(validation[1].message, [validation |-> validation]))

\* the preHandler built by fastify.zodValidation: a reply when parsing fails
zodValidation(issues) ==
  IF issues = <<>> THEN None ELSE Reply(400, validationError(issues))

(***************************************************************************)
(* auth/utils.ts                                                           *)
(***************************************************************************)
\* bcrypt.hash: a salted one-way digest; the salt is drawn by bcrypt
bcrypt(password, salt) ==
  [alg |-> "bcrypt", rounds |-> SALT_ROUNDS, salt |-> salt, digest |-> <<salt, password>>]

hashPassword(password, salt) == bcrypt(password, salt)

verifyPassword(password, hash) == bcrypt(password, hash.salt) = hash

\* the HS256 signature of a token's claims under a key
HS256(payload, iat, exp, key) == <<payload, iat, exp, key>>

jwtSign(payload, key, t) ==
  [payload |-> payload, iat |-> t, exp |-> t + TokenTTLDays,
   sig |-> HS256(payload, t, t + TokenTTLDays, key)]

\* mutant: signing with the fallback secret server.ts gives @fastify/jwt
generateToken_FallbackSecret(user, t) ==
  jwtSign([id |-> user.id, email |-> user.email, name |-> user.name],
          "default_secret_change_this", t)

generateToken(user, t) ==
  jwtSign([id |-> user.id, email |-> user.email, name |-> user.name], JWT_SECRET, t)

Malformed == [malformed |-> TRUE]

\* mutant: a token is accepted whatever its age
verifyToken_NoExpiry(token, t) ==
  IF token = Malformed THEN None
  ELSE IF token.sig # HS256(token.payload, token.iat, token.exp, JWT_SECRET) THEN None
  ELSE token.payload

\* jwt.verify inside try/catch: the payload, or null (None) when jwt.verify throws
verifyToken(token, t) ==
  IF token = Malformed THEN None
  ELSE IF token.sig # HS256(token.payload, token.iat, token.exp, JWT_SECRET) THEN None
  ELSE IF t >= token.exp THEN None
  ELSE token.payload

(***************************************************************************)
(* auth/middleware.ts                                                      *)
(***************************************************************************)
NoHeader == [scheme |-> "none"]
Bearer(token) == [scheme |-> "Bearer", credentials |-> token]
Basic(token) == [scheme |-> "Basic", credentials |-> token]

\* authenticate: the decoded user, or the 401 reply that ends the request
authenticate(header, t) ==
  IF header = NoHeader \/ header.scheme # "Bearer"
  THEN [ok |-> FALSE, reply |-> Reply(401, [error |-> "Unauthorized: No token provided"])]
  ELSE LET decoded == verifyToken(header.credentials, t)
       IN IF decoded = None
          THEN [ok |-> FALSE, reply |-> Reply(401, [error |-> "Unauthorized: Invalid token"])]
          ELSE [ok |-> TRUE, user |-> decoded]

\* mutant: every authenticated user passes the role check
checkRole_AnyUser(roles, user) == None

\* checkRole(roles): nothing when the decoded user has one of the roles, or
\* the 403 reply that ends the request; a payload without role has role
\* undefined
checkRole(roles, user) ==
  IF "role" \in DOMAIN user /\ user.role \in roles
  THEN None
  ELSE Reply(403, [error |-> "Forbidden: Insufficient permissions"])

\* preHandler: [authenticate, checkRole(['admin'])]: the reply that ends the
\* request, or nothing
adminOnly(header, t) ==
  LET auth == authenticate(header, t)
  IN IF ~auth.ok THEN auth.reply ELSE checkRole({"admin"}, auth.user)

(***************************************************************************)
(* db/schema.ts: the users and documents tables                            *)
(***************************************************************************)
\* mutant: the email column without its unique constraint
uniqueEmail_NoConstraint(email) == TRUE

\* users.email is .unique(): an insert of a taken email is rejected
uniqueEmail(email) == \A u \in users : u.email # email

\* mutant: the existence check finds nobody
findUserByEmail_Blind(email) == None

findUserByEmail(email) ==
  IF \E u \in users : u.email = email
  THEN CHOOSE u \in users : u.email = email
  ELSE None

findUserById(id) ==
  IF \E u \in users : u.id = id
  THEN CHOOSE u \in users : u.id = id
  ELSE None

findDocumentById(id) ==
  IF \E d \in documents : d.id = id
  THEN CHOOSE d \in documents : d.id = id
  ELSE None

\* the salt bcrypt draws for a new hash: a value no earlier hash used
freshSalt == nextUserId

newUserRow(email, hashedPassword, name) ==
  [id |-> nextUserId, email |-> email, password |-> hashedPassword, name |-> name,
   createdAt |-> now, updatedAt |-> now]

\* mutant: the response carries the whole row
userData_WholeRow(u) == u

userData(u) == [id |-> u.id, email |-> u.email, name |-> u.name]

(***************************************************************************)
(* The client side: the Authorization headers a client can send, built     *)
(* from the token it holds, and the reply on its way back to the client.   *)
(***************************************************************************)
Tampered(token) == [token EXCEPT !.payload.id = token.payload.id + 1]
Forged(token) == jwtSign(token.payload, "attacker-key", token.iat)

Headers(c) ==
  {NoHeader, Bearer(Malformed)} \cup
  (IF held[c] = None THEN {}
   ELSE {Bearer(held[c]), Basic(held[c]), Bearer(Tampered(held[c])), Bearer(Forged(held[c]))})

\* a token the operator signs with the server's secret for an administrator:
\* the only place a role can come from, as neither the users table nor
\* generateToken has one
OperatorToken ==
  jwtSign([id |-> 0, email |-> "ops@x.io", name |-> "Ops", role |-> "admin"], JWT_SECRET, 0)

\* a client rewriting the payload of its token to claim the admin role
Escalated(token) ==
  [token EXCEPT !.payload = [id |-> token.payload.id, email |-> token.payload.email,
                             name |-> token.payload.name, role |-> "admin"]]

AdminHeaders(c) ==
  Headers(c) \cup {Bearer(OperatorToken)} \cup
  (IF held[c] = None THEN {} ELSE {Bearer(Escalated(held[c]))})

\* a request is taken up when no reply is on its way out
Idle == last = None

Respond(c, op, req, handler, reply) ==
  last' = [client |-> c, op |-> op, req |-> req, at |-> now, handler |-> handler,
           status |-> reply.status, body |-> reply.body]

\* the client receives the reply; login and register keep the token they return
Deliver ==
  /\ last # None
  /\ held' = IF last.op \in {"register", "login"} /\ last.status \in {200, 201}
             THEN [held EXCEPT ![last.client] = last.body.data.token]
             ELSE held
  /\ last' = None
  /\ UNCHANGED <<users, nextUserId, documents, nextDocId, files, pend, now, registered, uploaded, browser>>

(***************************************************************************)
(* routes/auth.ts: POST /auth/register                                     *)
(***************************************************************************)
\* validation of the body schema, preHandler zodValidation, then the findFirst
\* existence check (line 155)
RegisterRequest(c, body) ==
  /\ Idle
  /\ pend[c] = None
  /\ LET rejected == schemaValidation(registerBodySchema(body))
         invalid == zodValidation(registerSchema(body))
     IN IF rejected # None
        THEN /\ Respond(c, "register", body, FALSE, rejected)
             /\ UNCHANGED pend
        ELSE IF invalid # None
        THEN /\ Respond(c, "register", body, FALSE, invalid)
             /\ UNCHANGED pend
        ELSE IF findUserByEmail(body.email) # None
        THEN /\ Respond(c, "register", body, TRUE,
                        Reply(409, conflict("User with this email already exists")))
             /\ UNCHANGED pend
        ELSE /\ pend' = [pend EXCEPT ![c] = body]
             /\ UNCHANGED last
  /\ UNCHANGED <<users, nextUserId, documents, nextDocId, files, held, now, registered, uploaded, browser>>

\* hashPassword, db.insert(users) and the reply (lines 165-197)
RegisterInsert(c) ==
  /\ Idle
  /\ pend[c] # None
  /\ pend' = [pend EXCEPT ![c] = None]
  /\ LET body == pend[c]
         row == newUserRow(body.email, hashPassword(body.password, freshSalt), body.name)
         token == generateToken(row, now)
     IN IF uniqueEmail(body.email)
        THEN /\ users' = users \cup {row}
             /\ nextUserId' = nextUserId + 1
             /\ registered' = registered \cup {[email |-> body.email, password |-> body.password]}
             /\ Respond(c, "register", body, TRUE,
                        Reply(201, created([user |-> userData(row), token |-> token],
                                           "User registered successfully")))
        ELSE \* the insert throws; the handler's catch answers 500
             /\ Respond(c, "register", body, TRUE,
                        Reply(500, error(500, "Internal Server Error",
                                         "An error occurred during registration", None)))
             /\ UNCHANGED <<users, nextUserId, registered>>
  /\ UNCHANGED <<documents, nextDocId, files, held, now, uploaded, browser>>

(***************************************************************************)
(* routes/auth.ts: POST /auth/login                                        *)
(***************************************************************************)
\* mutant: an unknown email gets a message of its own
loginHandler_Enumerating(body, t) ==
  LET user == findUserByEmail(body.email)
  IN IF user = None
     THEN Reply(401, unauthorized("No account with this email"))
     ELSE IF ~verifyPassword(body.password, user.password)
     THEN Reply(401, unauthorized("Invalid email or password"))
     ELSE Reply(200, success([user |-> userData(user), token |-> generateToken(user, t)],
                             "Login successful", 200))

loginHandler(body, t) ==
  LET user == findUserByEmail(body.email)
  IN IF user = None
     THEN Reply(401, unauthorized("Invalid email or password"))
     ELSE IF ~verifyPassword(body.password, user.password)
     THEN Reply(401, unauthorized("Invalid email or password"))
     ELSE Reply(200, success([user |-> userData(user), token |-> generateToken(user, t)],
                             "Login successful", 200))

loginRoute(body, t) ==
  LET rejected == schemaValidation(loginBodySchema(body))
      invalid == zodValidation(loginSchema(body))
  IN IF rejected # None
     THEN [handler |-> FALSE, reply |-> rejected]
     ELSE IF invalid # None
     THEN [handler |-> FALSE, reply |-> invalid]
     ELSE [handler |-> TRUE, reply |-> loginHandler(body, t)]

Login(c) ==
  /\ Idle
  /\ pend[c] = None
  /\ \E body \in LoginInputs :
       LET out == loginRoute(body, now)
       IN Respond(c, "login", body, out.handler, out.reply)
  /\ UNCHANGED <<users, nextUserId, documents, nextDocId, files, pend, held, now, registered, uploaded, browser>>

(***************************************************************************)
(* routes/auth.ts: GET /auth/me                                            *)
(***************************************************************************)
meHandler(user) ==
  LET row == findUserById(user.id)
  IN IF row = None
     THEN Reply(404, notFound("User not found"))
     ELSE Reply(200, success([user |-> [id |-> row.id, email |-> row.email, name |-> row.name,
                                        createdAt |-> row.createdAt,
                                        updatedAt |-> row.updatedAt]],
                             "User profile retrieved successfully", 200))

GetProfile(c) ==
  /\ Idle
  /\ pend[c] = None
  /\ \E header \in Headers(c) :
       LET auth == authenticate(header, now)
       IN Respond(c, "me", [header |-> header], auth.ok,
                  IF auth.ok THEN meHandler(auth.user) ELSE auth.reply)
  /\ UNCHANGED <<users, nextUserId, documents, nextDocId, files, pend, held, now, registered, uploaded, browser>>

(***************************************************************************)
(* utils/file-utils.ts and types/multipart.ts                              *)
(***************************************************************************)
\* Text that is matched or measured character by character (file names,
\* titles, descriptions, extracted text, queries) is a sequence of characters.
Rep(ch, n) == [i \in 1..n |-> ch]

\* a column that holds SQL NULL instead of text
NULL == <<"NULL">>

ScanPng == <<"s", "c", "a", "n", ".", "p", "n", "g">>
Invoice == <<"I", "n", "v", "o", "i", "c", "e">>

FilenameInputs == {ScanPng}
ContentInputs == {<<7>>, <<7, 9>>}
TitleInputs == {<<>>, Invoice, <<"x">>}
DescriptionInputs == {<<>>}

\* path.extname: from the last dot to the end, '' without a dot after the
\* first character
LastDot(filename) ==
  IF \E i \in DOMAIN filename : filename[i] = "."
  THEN CHOOSE i \in DOMAIN filename :
         /\ filename[i] = "."
         /\ \A j \in DOMAIN filename : filename[j] = "." => j <= i
  ELSE 0

extname(filename) ==
  IF LastDot(filename) <= 1 THEN <<>>
  ELSE SubSeq(filename, LastDot(filename), Len(filename))

\* crypto.randomBytes(16).toString('hex'): a 128-bit name, taken here to be
\* one not yet in use and written as one character
FreshFileIds == {i \in 1..MaxFiles : \A n \in DOMAIN files : n[1] # ToString(i)}

\* the stored name `${fileId}${fileExtension}`
storedName(fileId, filename) == <<ToString(fileId)>> \o extname(filename)

\* saveFile: the store after the stream is written, and what saveFile returns
saveFile(fileId, content, filename) ==
  LET fileName == storedName(fileId, filename)
  IN [files |-> [n \in DOMAIN files \cup {fileName} |->
                   IF n = fileName THEN content ELSE files[n]],
      fileName |-> fileName,
      fileSize |-> Len(content)]

OcrPrefix ==
  <<"O", "C", "R", " ", "t", "e", "x", "t", " ", "w", "o", "u", "l", "d",
  " ", "b", "e", " ", "e", "x", "t", "r", "a", "c", "t", "e", "d", " ",
  "f", "r", "o", "m", " ">>

OcrSuffix ==
  <<" ", "i", "n", " ", "a", " ", "r", "e", "a", "l", " ", "i", "m", "p",
  "l", "e", "m", "e", "n", "t", "a", "t", "i", "o", "n", ".">>

\* `OCR text would be extracted from ${path.basename(filePath)} in a real
\* implementation.`
processOCR(fileName) == OcrPrefix \o fileName \o OcrSuffix

\* getFieldValue: the field's value, or '' when the part carries no such field
getFieldValue(data, fieldName) ==
  IF fieldName \in DOMAIN data.fields THEN data.fields[fieldName] ELSE <<>>

IsSpace(ch) == ch \in {" ", "\t", "\n", "\r"}

RECURSIVE trimStart(_)
trimStart(s) == IF s # <<>> /\ IsSpace(Head(s)) THEN trimStart(Tail(s)) ELSE s

RECURSIVE trimEnd(_)
trimEnd(s) ==
  IF s # <<>> /\ IsSpace(s[Len(s)]) THEN trimEnd(SubSeq(s, 1, Len(s) - 1)) ELSE s

\* String.prototype.trim
trim(s) == trimEnd(trimStart(s))

\* mutant: the URL without the static prefix
fileUrl_NoPrefix(filePath) == <<baseUrl, "/", filePath>>

\* `${baseUrl}/uploads/${doc.filePath}`
fileUrl(filePath) == <<baseUrl, "/uploads/", filePath>>

\* @fastify/static on prefix /uploads/: the bytes served for a URL
fetchUrl(url) ==
  IF url[1] = baseUrl /\ url[2] = "/uploads/" /\ url[3] \in DOMAIN files
  THEN [status |-> 200, body |-> files[url[3]]]
  ELSE [status |-> 404, body |-> <<>>]

(***************************************************************************)
(* validation/documents.ts                                                 *)
(***************************************************************************)
\* mutant: the title is accepted from one character on
documentUploadSchema_MinOne(data) ==
     Check(Len(data.title) = 0, Issue("title", "Document title is required", "too_small"))
  \o Check(Len(data.title) > MaxTitleLen,
           Issue("title", "Document title cannot exceed 255 characters", "too_big"))
  \o Check(Len(data.description) > MaxDescriptionLen,
           Issue("description", "Document description cannot exceed 1000 characters",
                 "too_big"))

documentUploadSchema(data) ==
     Check(Len(data.title) = 0, Issue("title", "Document title is required", "too_small"))
  \o Check(Len(data.title) < MinTitleLen,
           Issue("title", "Document title must be at least 2 characters long", "too_small"))
  \o Check(Len(data.title) > MaxTitleLen,
           Issue("title", "Document title cannot exceed 255 characters", "too_big"))
  \o Check(Len(data.description) > MaxDescriptionLen,
           Issue("description", "Document description cannot exceed 1000 characters",
                 "too_big"))

(***************************************************************************)
(* The document routes: POST /api/upload                                   *)
(***************************************************************************)
NoFile == [nofile |-> TRUE]

\* what can fail underneath one upload: the write of the file, the text
\* extraction, the insert of the documents row
Faults(storage, ocr, db) == [storage |-> storage, ocr |-> ocr, db |-> db]
NoFaults == Faults(FALSE, FALSE, FALSE)
StorageFaults == {NoFaults, Faults(TRUE, FALSE, FALSE)}
AllFaults == StorageFaults \cup {Faults(FALSE, TRUE, FALSE), Faults(FALSE, FALSE, TRUE)}

\* mutant: the row is inserted without its owner
newDocumentRow_Unowned(userId, title, description, fileName, fileType, fileSize, ocrText, isPublic) ==
  [id |-> nextDocId, userId |-> 0, title |-> title,
   description |-> IF description = <<>> THEN NULL ELSE description,
   filePath |-> fileName, fileType |-> fileType, fileSize |-> fileSize,
   ocrText |-> ocrText, isPublic |-> isPublic, createdAt |-> now, updatedAt |-> now]

newDocumentRow(userId, title, description, fileName, fileType, fileSize, ocrText, isPublic) ==
  [id |-> nextDocId, userId |-> userId, title |-> title,
   description |-> IF description = <<>> THEN NULL ELSE description,
   filePath |-> fileName, fileType |-> fileType, fileSize |-> fileSize,
   ocrText |-> ocrText, isPublic |-> isPublic, createdAt |-> now, updatedAt |-> now]

\* mutant: a text extraction that raises fails the upload
extractText_Failing(fileName, fault) ==
  IF fault.ocr THEN [raised |-> TRUE, ocrText |-> <<>>]
  ELSE [raised |-> FALSE, ocrText |-> processOCR(fileName)]

\* the try/catch around processOCR: a raise is logged and the text is ''
extractText(fileName, fault) ==
  [raised |-> FALSE, ocrText |-> IF fault.ocr THEN <<>> ELSE processOCR(fileName)]

\* the handler after authentication: the reply with the stores it leaves
uploadHandler(user, data, fileId, fault) ==
  LET same == [files |-> files, documents |-> documents, nextDocId |-> nextDocId]
  IN
  IF data = NoFile
  THEN [reply |-> Reply(400, badRequest("No file uploaded. Please select a file to upload.",
                                        None))] @@ same
  ELSE IF data.filename = <<>>
  THEN [reply |-> Reply(400, badRequest("File must have a filename", None))] @@ same
  ELSE IF fault.storage
  THEN [reply |-> Reply(500, error(500, "File Upload Error", "Failed to save uploaded file",
                                   None))] @@ same
  ELSE
    LET saved == saveFile(fileId, data.content, data.filename)
        title == IF getFieldValue(data, "title") # <<>> THEN getFieldValue(data, "title")
                 ELSE data.filename
        description == getFieldValue(data, "description")
        ocr == extractText(saved.fileName, fault)
        issues == documentUploadSchema([title |-> title, description |-> description,
                                        isPublic |-> FALSE])
        row == newDocumentRow(user.id, title, description, saved.fileName, data.mimetype,
                              saved.fileSize, ocr.ocrText, FALSE)
        kept == [files |-> saved.files, documents |-> documents, nextDocId |-> nextDocId]
    IN IF title = <<>> \/ trim(title) = <<>>
       THEN [reply |-> Reply(400, badRequest(
               "Document title is required. Please provide a title for your document.",
               None))] @@ kept
       ELSE IF ocr.raised
       THEN [reply |-> Reply(500, error(500, "Internal Server Error",
                                        "An error occurred while uploading the document",
                                        None))] @@ kept
       ELSE IF issues # <<>>
       THEN [reply |-> Reply(400, validationError(issues))] @@ kept
       ELSE IF fault.db
       THEN [reply |-> Reply(400, badRequest("Document validation failed",
                                             [error |-> "insert failed"]))] @@ kept
       ELSE [reply |-> Reply(201, created([document |-> row],
                                          "Document uploaded successfully")),
             files |-> saved.files,
             documents |-> documents \cup {row},
             nextDocId |-> nextDocId + 1]

\* the multipart bodies made of the given field values
FileParts(filenames, contents, titles, descriptions) ==
  {[filename |-> f, mimetype |-> "image/png", content |-> b,
    fields |-> IF t = <<>> THEN [description |-> d] ELSE [title |-> t, description |-> d]] :
     f \in filenames, b \in contents, t \in titles, d \in descriptions}

UploadInputs ==
  {NoFile} \cup FileParts(FilenameInputs, ContentInputs, TitleInputs, DescriptionInputs)
  \cup FileParts({<<>>}, {<<7>>}, {Invoice}, {<<>>})

UploadFrom(c, inputs, faults) ==
  /\ Idle
  /\ pend[c] = None
  /\ FreshFileIds # {}
  /\ \E header \in Headers(c), data \in inputs, fileId \in FreshFileIds, fault \in faults :
       LET auth == authenticate(header, now)
           out == uploadHandler(auth.user, data, fileId, fault)
           req == [header |-> header, data |-> data, fault |-> fault]
       IN IF ~auth.ok
          THEN /\ Respond(c, "upload", req, FALSE, auth.reply)
               /\ UNCHANGED <<files, documents, nextDocId, uploaded>>
          ELSE /\ Respond(c, "upload", req, TRUE, out.reply)
               /\ files' = out.files
               /\ documents' = out.documents
               /\ nextDocId' = out.nextDocId
               /\ uploaded' = IF out.reply.status = 201
                               THEN uploaded \cup {[docId |-> out.reply.body.data.document.id,
                                                    userId |-> auth.user.id,
                                                    content |-> data.content]}
                               ELSE uploaded
  /\ UNCHANGED <<users, nextUserId, pend, held, now, registered, browser>>

Upload(c) == UploadFrom(c, UploadInputs, StorageFaults)

\* uploads at the limits of documentUploadSchema, with every fault
BoundaryTitles ==
  {<<>>, <<" ", " ">>} \cup
  {Rep("t", n) : n \in {MinTitleLen - 1, MinTitleLen, MaxTitleLen, MaxTitleLen + 1}}

BoundaryDescriptions == {<<>>, Rep("d", MaxDescriptionLen + 1)}

BoundaryUploadInputs ==
  {NoFile} \cup FileParts(FilenameInputs, {<<7>>}, BoundaryTitles, BoundaryDescriptions)

UploadBoundary(c) == UploadFrom(c, BoundaryUploadInputs, AllFaults)

(***************************************************************************)
(* The document routes: GET /api/documents                                 *)
(***************************************************************************)
\* mutant: the where clause also admits public and unowned rows
documentsOfUser_Unscoped(userId) == documents

\* findMany({where: eq(documents.userId, user.id)})
documentsOfUser(userId) == {d \in documents : d.userId = userId}

\* orderBy desc(createdAt): some order of the rows with no older row first
orderByCreatedAtDesc(rows) ==
  CHOOSE seq \in [1..Cardinality(rows) -> rows] :
    /\ \A d \in rows : \E i \in DOMAIN seq : seq[i] = d
    /\ \A i, j \in DOMAIN seq : i < j => seq[i].createdAt >= seq[j].createdAt

withFileUrl(doc) == doc @@ [fileUrl |-> fileUrl(doc.filePath)]

listHandler(user) ==
  LET rows == orderByCreatedAtDesc(documentsOfUser(user.id))
  IN Reply(200, success([documents |-> [i \in DOMAIN rows |-> withFileUrl(rows[i])]],
                        "Documents retrieved successfully", 200))

ListDocuments(c) ==
  /\ Idle
  /\ pend[c] = None
  /\ \E header \in Headers(c) :
       LET auth == authenticate(header, now)
       IN Respond(c, "list", [header |-> header], auth.ok,
                  IF auth.ok THEN listHandler(auth.user) ELSE auth.reply)
  /\ UNCHANGED <<users, nextUserId, documents, nextDocId, files, pend, held, now, registered, uploaded, browser>>

(***************************************************************************)
(* The document routes: GET /api/documents/:id                             *)
(***************************************************************************)
Digits == <<"0", "1", "2", "3", "4", "5", "6", "7", "8", "9">>
IsDigit(ch) == \E i \in DOMAIN Digits : Digits[i] = ch
DigitVal(ch) == (CHOOSE i \in DOMAIN Digits : Digits[i] = ch) - 1

\* the value parseInt gives when the text has no leading digit
NaN == 0 - 1

RECURSIVE DigitPrefixLen(_)
DigitPrefixLen(text) ==
  IF text = <<>> \/ ~IsDigit(Head(text)) THEN 0 ELSE 1 + DigitPrefixLen(Tail(text))

RECURSIVE DecimalValue(_)
DecimalValue(text) ==
  IF text = <<>> THEN 0
  ELSE 10 * DecimalValue(SubSeq(text, 1, Len(text) - 1)) + DigitVal(text[Len(text)])

\* parseInt: the value of the leading digits, NaN when there are none
parseInt(text) ==
  IF DigitPrefixLen(text) = 0 THEN NaN
  ELSE DecimalValue(SubSeq(text, 1, DigitPrefixLen(text)))

\* Number(text) is a finite number, for a text of digits, dots and the
\* letters a, b, c: some digit, nothing but digits and dots, at most one dot
IsNumberText(text) ==
  /\ \E i \in DOMAIN text : IsDigit(text[i])
  /\ \A i \in DOMAIN text : IsDigit(text[i]) \/ text[i] = "."
  /\ Cardinality({i \in DOMAIN text : text[i] = "."}) <= 1

\* the route's params schema {id: {type: 'number'}}: the text must be a number
paramsSchemaAccepts(text) == IsNumberText(text)

\* the validator replaces an accepted param by its number; the handler's
\* parseInt reads that number as String(Number(text)), which starts with the
\* integer part
coerceNumber(text) == IF Head(text) = "." THEN <<"0">> \o text ELSE text

IdInputs ==
  {<<ToString(i)>> : i \in 1..(MaxFiles + 1)} \cup
  {<<"a", "b", "c">>, <<"1", "a">>, <<"1", ".", "5">>}

\* the ownership check of lines 427-437: its body is commented out
accessDenied(user, document) ==
  IF document.userId # user.id /\ ~document.isPublic
  THEN FALSE
  ELSE FALSE

getDocumentHandler(user, idText) ==
  LET documentId == parseInt(idText)
      document == findDocumentById(documentId)
  IN IF documentId = NaN
     THEN Reply(400, badRequest("Invalid document ID format", None))
     ELSE IF document = None
     THEN Reply(404, notFound("Document not found"))
     ELSE IF accessDenied(user, document)
     THEN Reply(403, forbidden("You do not have permission to access this document"))
     ELSE Reply(200, [id |-> document.id, title |-> document.title,
                      message |-> "test response"])

\* Fastify runs a route's schema validation before its preHandler hooks
getDocumentRoute(header, idText, t) ==
  IF ~paramsSchemaAccepts(idText)
  THEN [handler |-> FALSE,
        reply |-> Reply(400, badRequest("params/id must be number",
                                        [validation |-> "params/id"]))]
  ELSE LET auth == authenticate(header, t)
       IN IF ~auth.ok
          THEN [handler |-> FALSE, reply |-> auth.reply]
          ELSE [handler |-> TRUE,
                reply |-> getDocumentHandler(auth.user, coerceNumber(idText))]

GetDocument(c) ==
  /\ Idle
  /\ pend[c] = None
  /\ \E header \in Headers(c), idText \in IdInputs :
       LET out == getDocumentRoute(header, idText, now)
       IN Respond(c, "get", [header |-> header, id |-> idText], out.handler, out.reply)
  /\ UNCHANGED <<users, nextUserId, documents, nextDocId, files, pend, held, now, registered, uploaded, browser>>

(***************************************************************************)
(* The document routes: GET /api/search                                    *)
(***************************************************************************)
UpperCase ==
  <<"A", "B", "C", "D", "E", "F", "G", "H", "I", "J", "K", "L", "M",
    "N", "O", "P", "Q", "R", "S", "T", "U", "V", "W", "X", "Y", "Z">>

LowerCase ==
  <<"a", "b", "c", "d", "e", "f", "g", "h", "i", "j", "k", "l", "m",
    "n", "o", "p", "q", "r", "s", "t", "u", "v", "w", "x", "y", "z">>

\* String.prototype.toLowerCase
toLowerCase(s) ==
  [i \in DOMAIN s |->
     IF \E k \in DOMAIN UpperCase : UpperCase[k] = s[i]
     THEN LowerCase[CHOOSE k \in DOMAIN UpperCase : UpperCase[k] = s[i]]
     ELSE s[i]]

\* String.prototype.includes
includes(s, q) == \E i \in 0..(Len(s) - Len(q)) : SubSeq(s, i + 1, i + Len(q)) = q

\* SQL LIKE from position i of the text and j of the pattern: % stands for
\* any run of characters, _ for any one character, a backslash makes the next
\* pattern character literal, every other character stands for itself
RECURSIVE likeFrom(_, _, _, _)
likeFrom(text, i, pattern, j) ==
  IF j > Len(pattern) THEN i > Len(text)
  ELSE IF pattern[j] = "%"
  THEN \/ j = Len(pattern)
       \/ \E k \in i..(Len(text) + 1) : likeFrom(text, k, pattern, j + 1)
  ELSE IF pattern[j] = "_"
  THEN i <= Len(text) /\ likeFrom(text, i + 1, pattern, j + 1)
  ELSE IF pattern[j] = "\\" /\ j < Len(pattern)
  THEN i <= Len(text) /\ text[i] = pattern[j + 1] /\ likeFrom(text, i + 1, pattern, j + 2)
  ELSE i <= Len(text) /\ text[i] = pattern[j] /\ likeFrom(text, i + 1, pattern, j + 1)

\* like(column, pattern): a NULL column matches nothing
like(column, pattern) == column # NULL /\ likeFrom(column, 1, pattern, 1)

\* mutant: every document is in scope
inScope_Everyone(userId, d) == TRUE

\* or(eq(documents.userId, user.id), eq(documents.isPublic, true))
inScope(userId, d) == d.userId = userId \/ d.isPublic

\* the rows of findMany for the search
searchRows(userId, searchQuery) ==
  LET pattern == <<"%">> \o searchQuery \o <<"%">>
  IN {d \in documents :
        /\ inScope(userId, d)
        /\ \/ like(d.title, pattern)
           \/ like(d.description, pattern)
           \/ like(d.ocrText, pattern)}

\* where the match was found
relevance(doc, searchQuery) ==
  IF includes(toLowerCase(doc.title), toLowerCase(searchQuery)) THEN "Title match"
  ELSE IF doc.description # NULL
          /\ includes(toLowerCase(doc.description), toLowerCase(searchQuery))
  THEN "Description match"
  ELSE IF doc.ocrText # NULL /\ includes(toLowerCase(doc.ocrText), toLowerCase(searchQuery))
  THEN "Content match (OCR)"
  ELSE "Unknown match"

searchResult(doc, searchQuery) ==
  [id |-> doc.id, title |-> doc.title, description |-> doc.description,
   fileUrl |-> fileUrl(doc.filePath), fileType |-> doc.fileType, fileSize |-> doc.fileSize,
   relevance |-> relevance(doc, searchQuery), createdAt |-> doc.createdAt]

searchHandler(user, searchQuery) ==
  LET rows == orderByCreatedAtDesc(searchRows(user.id, searchQuery))
  IN Reply(200, success([documents |-> [i \in DOMAIN rows |->
                                          searchResult(rows[i], searchQuery)]],
                        <<"Found", Len(rows), "document(s) matching", searchQuery>>, 200))

QueryInputs ==
  {<<>>, <<"i", "n", "v">>, <<"I", "N", "V">>, <<"%">>, <<"p", "n", "g">>}

SearchDocuments(c) ==
  /\ Idle
  /\ pend[c] = None
  /\ \E header \in Headers(c), searchQuery \in QueryInputs :
       LET auth == authenticate(header, now)
       IN Respond(c, "search", [header |-> header, query |-> searchQuery], auth.ok,
                  IF auth.ok THEN searchHandler(auth.user, searchQuery) ELSE auth.reply)
  /\ UNCHANGED <<users, nextUserId, documents, nextDocId, files, pend, held, now, registered, uploaded, browser>>

\* the uploads the searches run over
SearchTitles == {<<"I", "N", "V">>, <<"a", "b">>}
SearchDescriptions == {<<>>, <<"i", "n", "v">>}
SearchUploadInputs == FileParts(FilenameInputs, {<<7>>}, SearchTitles, SearchDescriptions)

UploadSearchable(c) == UploadFrom(c, SearchUploadInputs, {NoFaults})

(***************************************************************************)
(* Response schemas: a route's schema.response[status] is the serializer   *)
(* of its replies, which writes the declared properties and no other.      *)
(***************************************************************************)
Leaf == [type |-> "leaf"]
Obj(properties) == [type |-> "object", properties |-> properties]
Arr(items) == [type |-> "array", items |-> items]

\* the reply body as the schema's serializer writes it; no schema, no change
RECURSIVE serialize(_, _)
serialize(schema, value) ==
  IF schema = None \/ schema.type = "leaf" THEN value
  ELSE IF schema.type = "array"
  THEN [i \in DOMAIN value |-> serialize(schema.items, value[i])]
  ELSE [k \in DOMAIN schema.properties \cap DOMAIN value |->
          serialize(schema.properties[k], value[k])]

ErrorOnly == Obj([error |-> Leaf])

\* schema.response of GET /admin/documents
adminDocumentsResponse(status) ==
  IF status = 200
  THEN Obj([documents |->
              Arr(Obj([id |-> Leaf, userId |-> Leaf, title |-> Leaf, description |-> Leaf,
                       fileUrl |-> Leaf, fileType |-> Leaf, fileSize |-> Leaf,
                       isPublic |-> Leaf, createdAt |-> Leaf])),
            total |-> Leaf])
  ELSE IF status \in {401, 403, 500} THEN ErrorOnly
  ELSE None

(***************************************************************************)
(* The admin routes: GET /api/admin/documents and GET /auth/admin          *)
(***************************************************************************)
\* findMany without a where clause
findAllDocuments == documents

adminDocumentsHandler ==
  LET rows == orderByCreatedAtDesc(findAllDocuments)
  IN Reply(200, success([documents |-> [i \in DOMAIN rows |-> withFileUrl(rows[i])],
                         total |-> Len(rows)],
                        <<"Retrieved", Len(rows), "documents">>, 200))

AdminListDocuments(c) ==
  /\ Idle
  /\ pend[c] = None
  /\ \E header \in AdminHeaders(c) :
       LET denied == adminOnly(header, now)
       IN Respond(c, "adminDocuments", [header |-> header], denied = None,
                  IF denied = None THEN adminDocumentsHandler ELSE denied)
  /\ UNCHANGED <<users, nextUserId, documents, nextDocId, files, pend, held, now, registered, uploaded, browser>>

authAdminHandler == Reply(200, success([admin |-> TRUE], "Welcome, administrator!", 200))

AuthAdmin(c) ==
  /\ Idle
  /\ pend[c] = None
  /\ \E header \in AdminHeaders(c) :
       LET denied == adminOnly(header, now)
       IN Respond(c, "authAdmin", [header |-> header], denied = None,
                  IF denied = None THEN authAdminHandler ELSE denied)
  /\ UNCHANGED <<users, nextUserId, documents, nextDocId, files, pend, held, now, registered, uploaded, browser>>

(***************************************************************************)
(* The clock (in days), the initial state and the next-state relation.     *)
(***************************************************************************)
Tick ==
  /\ Idle
  /\ now < MaxTime
  /\ now' = now + 1
  /\ UNCHANGED <<users, nextUserId, documents, nextDocId, files, pend, held, registered, uploaded, last, browser>>

(***************************************************************************)
(* The browser: api/axios.ts, api/auth.ts and the auth store (zustand).    *)
(***************************************************************************)
StoreActions == {"login", "register", "logout", "checkAuth"}

\* what the browser submits
StoreLoginInputs == {[email |-> Email(1), password |-> p] : p \in {"hunter22", "abc"}}
StoreRegisterInputs == {[email |-> Email(1), password |-> "hunter22", name |-> n] : n \in NameInputs}

\* create(): the state the store starts with, read from localStorage
initialState(item) ==
  [user |-> None, token |-> item, isAuthenticated |-> item # None,
   isLoading |-> FALSE, error |-> None]

NothingInFlight == [a \in StoreActions |-> None]

\* the request interceptor: the Authorization header of a request, from the
\* token item at the time the request is sent
requestInterceptor(item) == IF item = None THEN NoHeader ELSE Bearer(item)

\* POST /auth/register taken in one piece: the reply and the row it inserts
registerRoute(body, t) ==
  LET rejected == schemaValidation(registerBodySchema(body))
      invalid == zodValidation(registerSchema(body))
      row == newUserRow(body.email, hashPassword(body.password, freshSalt), body.name)
  IN IF rejected # None THEN [reply |-> rejected, rows |-> {}]
     ELSE IF invalid # None THEN [reply |-> invalid, rows |-> {}]
     ELSE IF findUserByEmail(body.email) # None
     THEN [reply |-> Reply(409, conflict("User with this email already exists")), rows |-> {}]
     ELSE [reply |-> Reply(201, created([user |-> userData(row),
                                         token |-> generateToken(row, t)],
                                        "User registered successfully")),
           rows |-> {row}]

\* GET /auth/me: authenticate, then the handler
meRoute(header, t) ==
  LET auth == authenticate(header, t)
  IN IF auth.ok THEN meHandler(auth.user) ELSE auth.reply

\* POST /auth/logout: the server registers no such route
logoutRoute == Reply(404, [message |-> "Route POST:/auth/logout not found",
                           error |-> "Not Found", statusCode |-> 404])

\* error.response.data.message || fallback
errorMessage(reply, fallback) ==
  IF "message" \in DOMAIN reply.body THEN reply.body.message ELSE fallback

\* the response interceptor on a 401: the token item is removed and
\* window.location.href = '/login' loads the page anew, which creates the
\* store again and abandons every pending request
redirectToLogin ==
  /\ localStorage' = None
  /\ useAuthStore' = initialState(None)
  /\ inFlight' = NothingInFlight

\* login and register, lines 19-30 and 45-56: the request is sent
loginStart(credentials) ==
  /\ inFlight["login"] = None
  /\ useAuthStore' = [useAuthStore EXCEPT !.isLoading = TRUE, !.error = None]
  /\ inFlight' = [inFlight EXCEPT !["login"] = [body |-> credentials]]
  /\ UNCHANGED <<localStorage, server>>

\* the rest of login: the response arrives
loginSettle ==
  /\ inFlight["login"] # None
  /\ LET reply == loginRoute(inFlight["login"].body, now).reply
     IN IF reply.status = 200
        THEN /\ localStorage' = reply.body.data.token
             /\ useAuthStore' = [useAuthStore EXCEPT !.user = reply.body.data.user,
                                                     !.token = reply.body.data.token,
                                                     !.isAuthenticated = TRUE,
                                                     !.isLoading = FALSE]
             /\ inFlight' = [inFlight EXCEPT !["login"] = None]
        ELSE IF reply.status = 401
        THEN redirectToLogin
        ELSE /\ useAuthStore' = [useAuthStore EXCEPT
                                   !.isLoading = FALSE,
                                   !.error = errorMessage(reply, "Failed to login")]
             /\ inFlight' = [inFlight EXCEPT !["login"] = None]
             /\ UNCHANGED localStorage
  /\ UNCHANGED server

registerStart(credentials) ==
  /\ inFlight["register"] = None
  /\ useAuthStore' = [useAuthStore EXCEPT !.isLoading = TRUE, !.error = None]
  /\ inFlight' = [inFlight EXCEPT !["register"] = [body |-> credentials]]
  /\ UNCHANGED <<localStorage, server>>

registerSettle ==
  /\ inFlight["register"] # None
  /\ LET out == registerRoute(inFlight["register"].body, now)
         reply == out.reply
     IN /\ users' = users \cup out.rows
        /\ nextUserId' = nextUserId + Cardinality(out.rows)
        /\ registered' = registered \cup
             {[email |-> row.email, password |-> inFlight["register"].body.password] :
                row \in out.rows}
        /\ IF reply.status = 201
           THEN /\ localStorage' = reply.body.data.token
                /\ useAuthStore' = [useAuthStore EXCEPT !.user = reply.body.data.user,
                                                        !.token = reply.body.data.token,
                                                        !.isAuthenticated = TRUE,
                                                        !.isLoading = FALSE]
           ELSE /\ useAuthStore' = [useAuthStore EXCEPT
                                      !.isLoading = FALSE,
                                      !.error = errorMessage(reply, "Failed to register")]
                /\ UNCHANGED localStorage
        /\ inFlight' = [inFlight EXCEPT !["register"] = None]
  /\ UNCHANGED <<documents, nextDocId, files, pend, held, now, uploaded, last>>

\* logout, lines 71-74: the request is sent
logoutStart ==
  /\ inFlight["logout"] = None
  /\ useAuthStore' = [useAuthStore EXCEPT !.isLoading = TRUE]
  /\ inFlight' = [inFlight EXCEPT !["logout"] = [header |-> requestInterceptor(localStorage)]]
  /\ UNCHANGED <<localStorage, server>>

\* the rest of logout, lines 75-97: both branches remove the token item
logoutSettle ==
  /\ inFlight["logout"] # None
  /\ LET reply == logoutRoute
     IN IF reply.status < 300
        THEN useAuthStore' = [useAuthStore EXCEPT !.user = None, !.token = None,
                                                  !.isAuthenticated = FALSE,
                                                  !.isLoading = FALSE]
        ELSE useAuthStore' = [useAuthStore EXCEPT
                                !.user = None, !.token = None,
                                !.isAuthenticated = FALSE, !.isLoading = FALSE,
                                !.error = errorMessage(reply, "Failed to logout")]
  /\ localStorage' = None
  /\ inFlight' = [inFlight EXCEPT !["logout"] = None]
  /\ UNCHANGED server

\* checkAuth, lines 100-111: without a token item the store is cleared at
\* once, with one the request is sent
checkAuthStart ==
  /\ inFlight["checkAuth"] = None
  /\ IF localStorage = None
     THEN /\ useAuthStore' = [useAuthStore EXCEPT !.user = None, !.token = None,
                                                  !.isAuthenticated = FALSE]
          /\ UNCHANGED inFlight
     ELSE /\ useAuthStore' = [useAuthStore EXCEPT !.isLoading = TRUE]
          /\ inFlight' = [inFlight EXCEPT
                            !["checkAuth"] = [header |-> requestInterceptor(localStorage)]]
  /\ UNCHANGED <<localStorage, server>>

\* the rest of checkAuth, lines 112-135: a success sets user and
\* isAuthenticated and leaves token as it is
checkAuthSettle ==
  /\ inFlight["checkAuth"] # None
  /\ LET reply == meRoute(inFlight["checkAuth"].header, now)
     IN IF reply.status = 200
        THEN /\ useAuthStore' = [useAuthStore EXCEPT !.user = reply.body.data,
                                                     !.isAuthenticated = TRUE,
                                                     !.isLoading = FALSE]
             /\ inFlight' = [inFlight EXCEPT !["checkAuth"] = None]
             /\ UNCHANGED localStorage
        ELSE IF reply.status = 401
        THEN redirectToLogin
        ELSE /\ useAuthStore' = [useAuthStore EXCEPT
                                   !.user = None, !.token = None,
                                   !.isAuthenticated = FALSE, !.isLoading = FALSE,
                                   !.error = errorMessage(reply,
                                                          "Failed to check authentication")]
             /\ localStorage' = None
             /\ inFlight' = [inFlight EXCEPT !["checkAuth"] = None]
  /\ UNCHANGED server

Init ==
  /\ users = {}
  /\ nextUserId = 1
  /\ documents = {}
  /\ nextDocId = 1
  /\ files = <<>>
  /\ pend = [c \in Clients |-> None]
  /\ held = [c \in Clients |-> None]
  /\ now = 0
  /\ registered = {}
  /\ uploaded = {}
  /\ last = None
  /\ localStorage = None
  /\ useAuthStore = initialState(None)
  /\ inFlight = NothingInFlight

NextDocs ==
  \/ \E c \in Clients, body \in SignupInputs : RegisterRequest(c, body)
  \/ \E c \in Clients : RegisterInsert(c)
  \/ \E c \in Clients : Upload(c)
  \/ \E c \in Clients : ListDocuments(c)
  \/ \E c \in Clients : GetDocument(c)
  \/ Deliver

Spec == Init /\ [][NextDocs]_vars

NextAuth ==
  \/ \E c \in Clients, body \in RegisterInputs : RegisterRequest(c, body)
  \/ \E c \in Clients : RegisterInsert(c)
  \/ \E c \in Clients : Login(c)
  \/ \E c \in Clients : GetProfile(c)
  \/ Deliver

SpecAuth == Init /\ [][NextAuth]_vars

\* the auth routes with the clock running
ClockSignupInputs == {body \in SignupInputs : body.email = Email(1)}

NextClock ==
  \/ \E c \in Clients, body \in ClockSignupInputs : RegisterRequest(c, body)
  \/ \E c \in Clients : RegisterInsert(c)
  \/ \E c \in Clients : Login(c)
  \/ \E c \in Clients : GetProfile(c)
  \/ Deliver
  \/ Tick

SpecClock == Init /\ [][NextClock]_vars

NextUpload ==
  \/ \E c \in Clients, body \in SignupInputs : RegisterRequest(c, body)
  \/ \E c \in Clients : RegisterInsert(c)
  \/ \E c \in Clients : UploadBoundary(c)
  \/ Deliver

SpecUpload == Init /\ [][NextUpload]_vars

NextSearch ==
  \/ \E c \in Clients, body \in SignupInputs : RegisterRequest(c, body)
  \/ \E c \in Clients : RegisterInsert(c)
  \/ \E c \in Clients : UploadSearchable(c)
  \/ \E c \in Clients : SearchDocuments(c)
  \/ Deliver

SpecSearch == Init /\ [][NextSearch]_vars

NextAdmin ==
  \/ \E c \in Clients, body \in RoleSignupInputs : RegisterRequest(c, body)
  \/ \E c \in Clients : RegisterInsert(c)
  \/ \E c \in Clients : UploadSearchable(c)
  \/ \E c \in Clients : AdminListDocuments(c)
  \/ \E c \in Clients : AuthAdmin(c)
  \/ Deliver

SpecAdmin == Init /\ [][NextAdmin]_vars

\* every route of the server, with one upload that succeeds and the ones that
\* fail
\* a multipart body that asks for a public document
PublicPart ==
  [filename |-> ScanPng, mimetype |-> "image/png", content |-> <<7>>,
   fields |-> [title |-> Invoice, description |-> <<>>, isPublic |-> <<"t", "r", "u", "e">>]]

PlainUploadInputs ==
  {NoFile, PublicPart} \cup FileParts(FilenameInputs, {<<7>>}, {<<" ">>}, {<<>>})

UploadPlain(c) == UploadFrom(c, PlainUploadInputs, AllFaults)

NextAll ==
  \/ \E c \in Clients, body \in SignupInputs : RegisterRequest(c, body)
  \/ \E c \in Clients : RegisterInsert(c)
  \/ \E c \in Clients : Login(c)
  \/ \E c \in Clients : GetProfile(c)
  \/ \E c \in Clients : UploadPlain(c)
  \/ \E c \in Clients : ListDocuments(c)
  \/ \E c \in Clients : GetDocument(c)
  \/ \E c \in Clients : SearchDocuments(c)
  \/ \E c \in Clients : AdminListDocuments(c)
  \/ \E c \in Clients : AuthAdmin(c)
  \/ Deliver

SpecAll == Init /\ [][NextAll]_vars

\* the browser's auth store against the auth routes, with the clock running
NextStore ==
  \/ \E credentials \in StoreLoginInputs : loginStart(credentials)
  \/ loginSettle
  \/ \E credentials \in StoreRegisterInputs : registerStart(credentials)
  \/ registerSettle
  \/ logoutStart
  \/ logoutSettle
  \/ checkAuthStart
  \/ checkAuthSettle
  \/ Tick

SpecStore == Init /\ [][NextStore]_vars

(***************************************************************************)
(* Properties.                                                             *)
(***************************************************************************)
Replied(op) == last # None /\ last.op = op

\* the requester a reply was computed for, from the header the request carried
Requester == authenticate(last.req.header, last.at)

EmailTaken(email) == \E u \in users : u.email = email

\* C1: GetDocument answers an authenticated requester 200 when the requester
\* owns the document or the document is public, and 403 otherwise.
C1_GetDocumentAccessDecision ==
  (Replied("get") /\ paramsSchemaAccepts(last.req.id) /\ Requester.ok) =>
    \A d \in documents :
      d.id = parseInt(last.req.id) =>
        IF d.userId = Requester.user.id \/ d.isPublic
        THEN last.status = 200
        ELSE last.status = 403

\* C2: no two user records have the same email, in every interleaving of
\* Register requests.
C2_EmailUnique ==
  \A u1, u2 \in users : u1.email = u2.email => u1 = u2

\* C2 witness: a registration lost the race: it passed the existence check and
\* its insert was rejected because the email had been taken meanwhile.
C2_Witness ==
  /\ Replied("register")
  /\ last.status = 500
  /\ EmailTaken(last.req.email)

\* C3: a Register request that the handler took up is answered 201 or, when
\* its email is taken (also by a concurrent winner), 409; never 500.
C3_RaceLoserSeesConflict ==
  (Replied("register") /\ last.handler) => last.status \in {201, 409}

\* C4: a well-formed Register request that arrives when its email belongs to
\* a user is answered 409 at once and leaves the user store as it was.
C4_DuplicateRegisterStep(c, body) ==
  ( /\ Idle
    /\ pend[c] = None
    /\ registerSchema(body) = <<>>
    /\ EmailTaken(body.email)
    /\ \/ pend'[c] = body
       \/ last' # None /\ last'.op = "register" /\ last'.client = c /\ last'.req = body )
  => ( /\ last' # None
       /\ last'.status = 409
       /\ last'.body.error = "Conflict"
       /\ users' = users
       /\ nextUserId' = nextUserId )

C4_DuplicateRegisterConflict ==
  [][\A c \in Clients, body \in RegisterInputs : C4_DuplicateRegisterStep(c, body)]_vars

\* C4 witness: a duplicate registration was answered 409.
C4_Witness ==
  /\ Replied("register")
  /\ last.status = 409
  /\ EmailTaken(last.req.email)

\* a token identifies a user: while it has not expired, authenticate accepts
\* it and decodes that user's id and email
TokenIdentifies(token, user) ==
  \A t \in token.iat..(token.exp - 1) :
    LET a == authenticate(Bearer(token), t)
    IN a.ok /\ a.user.id = user.id /\ a.user.email = user.email

FailingLogin(body) == loginSchema(body) = <<>> /\ body \notin registered

\* C6: every failing Login, whether its email is unknown or its password is
\* wrong, gets the same status 401 and the same body.
C6_LoginNoEnumeration ==
  /\ \A b1, b2 \in LoginInputs :
       (FailingLogin(b1) /\ FailingLogin(b2))
         => /\ loginRoute(b1, now).reply = loginRoute(b2, now).reply
            /\ loginRoute(b1, now).reply.status = 401
  /\ (Replied("login") /\ FailingLogin(last.req))
       => \A b \in LoginInputs :
            FailingLogin(b) => loginRoute(b, last.at).reply = Reply(last.status, last.body)

\* C6 witness: a Login with a known email and a wrong password failed, in a
\* state where some other well-formed email has no user.
C6_Witness ==
  /\ Replied("login")
  /\ last.status = 401
  /\ EmailTaken(last.req.email)
  /\ \E b \in LoginInputs : loginSchema(b) = <<>> /\ ~EmailTaken(b.email)

\* C7: on a route that requires authentication, a request whose Authorization
\* header is missing, not a Bearer header, or carries an invalid token is
\* answered 401 and the handler does not run.
C7_BadTokenAlways401 ==
  (last # None /\ last.op \in {"me", "upload", "list", "get"} /\ ~Requester.ok)
    => (last.status = 401 /\ ~last.handler)

\* C8: authentication is decided before input validation: GetDocument with a
\* non-numeric id and no valid bearer token is answered 401, not 400.
C8_AuthBeforeValidation ==
  (Replied("get") /\ ~paramsSchemaAccepts(last.req.id) /\ ~Requester.ok)
    => last.status = 401

ListedIds == {last.body.data.documents[i].id : i \in DOMAIN last.body.data.documents}

\* C9: the list returned to a user holds exactly the documents that user owns.
C9_ListScopedToRequester ==
  (Replied("list") /\ last.status = 200) =>
    /\ ListedIds = {d.id : d \in {x \in documents : x.userId = Requester.user.id}}
    /\ Len(last.body.data.documents) = Cardinality(ListedIds)
    /\ \A i \in DOMAIN last.body.data.documents :
         /\ last.body.data.documents[i].userId = Requester.user.id
         /\ \E d \in documents : d.id = last.body.data.documents[i].id
                                 /\ d.title = last.body.data.documents[i].title

\* C9 witness: a user with a document listed its documents while another
\* user's document was in the store.
C9_Witness ==
  /\ Replied("list")
  /\ last.status = 200
  /\ ListedIds # {}
  /\ \E d \in documents : d.userId # Requester.user.id

\* C10: once an Upload by a user is answered 201, the document is stored, and
\* every later list of that user holds it with a fileUrl that serves the
\* uploaded bytes.
C10_UploadListedWithBytes ==
  /\ (Replied("upload") /\ last.status = 201)
       => /\ last.body.data.document \in documents
          /\ last.body.data.document.userId = Requester.user.id
          /\ fetchUrl(fileUrl(last.body.data.document.filePath))
               = [status |-> 200, body |-> last.req.data.content]
  /\ (Replied("list") /\ last.status = 200)
       => \A g \in uploaded :
            g.userId = Requester.user.id =>
              \E i \in DOMAIN last.body.data.documents :
                /\ last.body.data.documents[i].id = g.docId
                /\ fetchUrl(last.body.data.documents[i].fileUrl)
                     = [status |-> 200, body |-> g.content]

\* C10 witness: a list after two uploads of different bytes, the earlier one
\* by the requester.
C10_Witness ==
  /\ Replied("list")
  /\ last.status = 200
  /\ \E g1, g2 \in uploaded :
       /\ g1.userId = Requester.user.id
       /\ g1.docId < g2.docId
       /\ g1.content # g2.content

\* an upload that reached the handler with a file part whose bytes were stored
StoredUpload ==
  /\ Replied("upload")
  /\ last.handler
  /\ last.req.data # NoFile
  /\ last.req.data.filename # <<>>
  /\ ~last.req.fault.storage

TitleField == getFieldValue(last.req.data, "title")
DescriptionField == getFieldValue(last.req.data, "description")

\* C11: an upload with a file part and an empty or absent title is answered
\* 400 with a details.errors entry for field 'title', whatever the file's name.
C11_MissingTitleRejected ==
  (StoredUpload /\ trim(TitleField) = <<>>) =>
    /\ last.status = 400
    /\ "details" \in DOMAIN last.body
    /\ "errors" \in DOMAIN last.body.details
    /\ \E i \in DOMAIN last.body.details.errors :
         last.body.details.errors[i].field = "title"

\* C12 as stated: with a stored file, a valid description and no fault, an
\* upload with a title of n characters is answered 201 and stored with that
\* title exactly when 2 <= n <= 255, and 400 otherwise.
C12_TitleLengthBoundary ==
  (StoredUpload /\ TitleField # <<>> /\ last.req.fault = NoFaults
     /\ Len(DescriptionField) <= MaxDescriptionLen) =>
    /\ last.status = 201 <=> (MinTitleLen <= Len(TitleField) /\ Len(TitleField) <= MaxTitleLen)
    /\ last.status = 201 => /\ last.body.data.document \in documents
                            /\ last.body.data.document.title = TitleField
    /\ last.status # 201 => last.status = 400

\* C12 amended: the same for a title that is not made of whitespace only.
C12_NonBlankTitleLengthBoundary ==
  (StoredUpload /\ trim(TitleField) # <<>> /\ last.req.fault = NoFaults
     /\ Len(DescriptionField) <= MaxDescriptionLen) =>
    /\ last.status = 201 <=> (MinTitleLen <= Len(TitleField) /\ Len(TitleField) <= MaxTitleLen)
    /\ last.status = 201 => /\ last.body.data.document \in documents
                            /\ last.body.data.document.title = TitleField
    /\ last.status # 201 => last.status = 400

\* C12 witness: a title of exactly the longest accepted length was stored.
C12_Witness ==
  /\ StoredUpload
  /\ last.req.fault = NoFaults
  /\ Len(TitleField) = MaxTitleLen
  /\ last.status = 201
  /\ last.body.data.document.title = TitleField

C14_InsertFailureIs500 ==
  (StoredUpload /\ last.req.fault.db /\ trim(TitleField) # <<>>
     /\ MinTitleLen <= Len(TitleField) /\ Len(TitleField) <= MaxTitleLen
     /\ Len(DescriptionField) <= MaxDescriptionLen) =>
    last.status = 500

\* C15: an upload that is answered 400 leaves the file store and the
\* document store as they were.
C15_RejectedUploadStep ==
  (last = None /\ last' # None /\ last'.op = "upload" /\ last'.status = 400) =>
    (files' = files /\ documents' = documents)

C15_RejectedUploadTouchesNothing == [][C15_RejectedUploadStep]_vars

\* the text is the decimal numeral of an identifier
IsIdentifierText(text) == text # <<>> /\ DigitPrefixLen(text) = Len(text)

\* C16: GetDocument by an authenticated requester with an id that is not a
\* numeric identifier is answered 400, whatever the id has as a prefix.
C16_NonNumericIdIs400 ==
  (Replied("get") /\ Requester.ok /\ ~IsIdentifierText(last.req.id)) => last.status = 400

\* C17: for an authenticated requester GetDocument answers 400 if the id is
\* not numeric, else 404 if no document has that id, else 403 if the requester
\* is not the owner and the document is not public, else 200.
C17_GetDocumentPrecedence ==
  (Replied("get") /\ Requester.ok) =>
    LET document == findDocumentById(parseInt(last.req.id))
    IN last.status =
         IF ~IsIdentifierText(last.req.id) THEN 400
         ELSE IF document = None THEN 404
         ELSE IF document.userId # Requester.user.id /\ ~document.isPublic THEN 403
         ELSE 200

\* the ids of the documents a search reply returned
FoundIds == {last.body.data.documents[i].id : i \in DOMAIN last.body.data.documents}

\* the text holds the query, ignoring letter case
ContainsIgnoringCase(text, q) == text # NULL /\ includes(toLowerCase(text), toLowerCase(q))

\* C18: no document a search returns is a private document of a user other
\* than the requester, for every query.
C18_SearchScopedToOwnOrPublic ==
  (Replied("search") /\ last.status = 200) =>
    \A d \in documents :
      d.id \in FoundIds => (d.userId = Requester.user.id \/ d.isPublic)

\* C18 witness: a search returned a document while a private document of
\* another user matched the same query.
C18_Witness ==
  /\ Replied("search")
  /\ last.status = 200
  /\ FoundIds # {}
  /\ \E d \in documents :
       /\ d.userId # Requester.user.id
       /\ ~d.isPublic
       /\ like(d.title, <<"%">> \o last.req.query \o <<"%">>)

\* C19: a search returns a document visible to the requester exactly when
\* its title, description or extracted text holds the query ignoring case.
C19_SearchIgnoresCase ==
  (Replied("search") /\ last.status = 200) =>
    \A d \in documents :
      (d.userId = Requester.user.id \/ d.isPublic) =>
        (d.id \in FoundIds <=> \/ ContainsIgnoringCase(d.title, last.req.query)
                               \/ ContainsIgnoringCase(d.description, last.req.query)
                               \/ ContainsIgnoringCase(d.ocrText, last.req.query))

\* C20: every search result carries the tag of the first of title,
\* description and extracted text that holds the query ignoring case, and
\* none carries 'Unknown match'.
C20_SearchResultTagged ==
  (Replied("search") /\ last.status = 200) =>
    \A i \in DOMAIN last.body.data.documents :
      LET r == last.body.data.documents[i]
          d == findDocumentById(r.id)
      IN /\ r.relevance # "Unknown match"
         /\ r.relevance =
              IF ContainsIgnoringCase(d.title, last.req.query) THEN "Title match"
              ELSE IF ContainsIgnoringCase(d.description, last.req.query)
              THEN "Description match"
              ELSE "Content match (OCR)"

\* the decoded token of the requester carries the admin role
HoldsAdminRole == Requester.ok /\ "role" \in DOMAIN Requester.user /\ Requester.user.role = "admin"

\* what the client receives for a reply of GET /api/admin/documents
AdminDocumentsReceived == serialize(adminDocumentsResponse(last.status), last.body)

\* C21: AdminListDocuments answers a requester whose token carries the admin
\* role 200 with every document of the store and their number as total, a
\* requester without it 403 with no data, and a request without a valid
\* token 401.
C21_AdminListNeedsAdminRole ==
  Replied("adminDocuments") =>
    /\ ~Requester.ok => last.status = 401
    /\ (Requester.ok /\ ~HoldsAdminRole) =>
         (last.status = 403 /\ DOMAIN AdminDocumentsReceived = {"error"})
    /\ HoldsAdminRole =>
         /\ last.status = 200
         /\ "data" \in DOMAIN AdminDocumentsReceived
         /\ AdminDocumentsReceived.data.total = Cardinality(documents)
         /\ \A d \in documents :
              \E i \in DOMAIN AdminDocumentsReceived.data.documents :
                AdminDocumentsReceived.data.documents[i].id = d.id

\* C28: a registration that asks for role 'admin' yields a user and a token
\* that do not pass checkRole(['admin']); no token the server issues for any
\* of its users passes it, and the admin routes answer 200 only to a token
\* that was given the role outside the API.
C28_NoEscalationThroughRegister ==
  /\ \A u \in users, t \in 0..now :
       /\ verifyToken(generateToken(u, t), now) # None
            => checkRole({"admin"}, verifyToken(generateToken(u, t), now)) # None
       /\ "role" \notin DOMAIN u
  /\ (last # None /\ last.op \in {"register", "login"} /\ last.status \in {200, 201}) =>
       checkRole({"admin"}, last.body.data.token.payload) # None
  /\ (last # None /\ last.op \in {"adminDocuments", "authAdmin"} /\ last.status = 200) =>
       last.req.header = Bearer(OperatorToken)

\* C28 witness: a registration asking for role 'admin' was answered 201.
C28_Witness ==
  /\ Replied("register")
  /\ last.status = 201
  /\ "role" \in DOMAIN last.req
  /\ last.req.role = "admin"

\* the two shapes of the response envelope
IsSuccessEnvelope(body) ==
  /\ DOMAIN body = {"success", "statusCode", "message", "data"}
  /\ body.success = TRUE

IsErrorEnvelope(body) ==
  /\ DOMAIN body \in {{"success", "statusCode", "error", "message"},
                      {"success", "statusCode", "error", "message", "details"}}
  /\ body.success = FALSE

\* C22: every response is {success: true, statusCode, message, data} or
\* {success: false, statusCode, error, message, details?}, with the status
\* it was sent under.
C22_UniformEnvelope ==
  last # None =>
    /\ IsSuccessEnvelope(last.body) \/ IsErrorEnvelope(last.body)
    /\ last.body.statusCode = last.status

\* the fileUrl every returned document should carry
HasDerivedFileUrl(returned, filePath) ==
  "fileUrl" \in DOMAIN returned /\ returned.fileUrl = fileUrl(filePath)

\* C23: every document an operation returns carries a fileUrl, which is
\* the base URL, '/uploads/' and the stored name, in Upload, ListDocuments
\* and GetDocument alike.
C23_FileUrlOnEveryDocument ==
  /\ (Replied("upload") /\ last.status = 201) =>
       HasDerivedFileUrl(last.body.data.document, last.body.data.document.filePath)
  /\ (Replied("list") /\ last.status = 200) =>
       \A i \in DOMAIN last.body.data.documents :
         HasDerivedFileUrl(last.body.data.documents[i], last.body.data.documents[i].filePath)
  /\ (Replied("get") /\ last.status = 200) =>
       /\ "document" \in DOMAIN last.body
       /\ HasDerivedFileUrl(last.body.document,
                            findDocumentById(parseInt(last.req.id)).filePath)

\* the tokens the server has issued so far: one per user and day of issue
IssuedTokens == {generateToken(u, t) : u \in users, t \in 0..now}

\* C24: a token issued at Register or Login is accepted on every request
\* made less than 7 days after its issue and rejected with 401 from then on;
\* nothing but its age decides.
C24_TokenLifetime ==
  /\ \A token \in IssuedTokens :
       authenticate(Bearer(token), now).ok <=> now < token.iat + TokenTTLDays
  /\ \A c \in Clients :
       held[c] # None =>
         (authenticate(Bearer(held[c]), now).ok <=> now < held[c].iat + TokenTTLDays)
  /\ (Replied("me") /\ last.req.header.scheme = "Bearer"
        /\ last.req.header.credentials \in IssuedTokens) =>
       IF last.at < last.req.header.credentials.iat + TokenTTLDays
       THEN last.status = 200
       ELSE last.status = 401

\* C24 witness: a token was rejected 7 days after its issue, while a later
\* token of the same user is still accepted.
C24_Witness ==
  /\ Replied("me")
  /\ last.status = 401
  /\ last.req.header.scheme = "Bearer"
  /\ last.req.header.credentials \in IssuedTokens
  /\ last.at = last.req.header.credentials.iat + TokenTTLDays
  /\ \E token \in IssuedTokens :
       /\ token.payload = last.req.header.credentials.payload
       /\ authenticate(Bearer(token), now).ok

\* C25: every user record holds a bcrypt hash of the submitted password and
\* not the password; no response of Register, Login or GetProfile and no
\* token payload carries the password or the hash.
C25_PasswordNeverExposed ==
  /\ \A u \in users :
       /\ u.password.alg = "bcrypt"
       /\ \A r \in registered : r.email = u.email => verifyPassword(r.password, u.password)
  /\ \A token \in IssuedTokens : DOMAIN token.payload = {"id", "email", "name"}
  /\ (last # None /\ last.op \in {"register", "login"} /\ last.status \in {200, 201}) =>
       /\ DOMAIN last.body.data = {"user", "token"}
       /\ DOMAIN last.body.data.user = {"id", "email", "name"}
       /\ DOMAIN last.body.data.token.payload = {"id", "email", "name"}
  /\ (Replied("me") /\ last.status = 200) =>
       /\ DOMAIN last.body.data = {"user"}
       /\ DOMAIN last.body.data.user = {"id", "email", "name", "createdAt", "updatedAt"}
  /\ (last # None /\ last.op \in {"register", "login", "me"} /\ last.status >= 400) =>
       "data" \notin DOMAIN last.body

\* C25 witness: a login of a registered user was answered with the user and
\* a token.
C25_Witness ==
  /\ Replied("login")
  /\ last.status = 200
  /\ \E u \in users : u.email = last.req.email /\ verifyPassword(last.req.password, u.password)

\* the fields of a request that break a rule of its schema
ViolatedFields(issues) == {issues[i].field : i \in 1..Len(issues)}

\* the 400 reply lists each of the given fields with field, message and code
ListsEveryField(fields) ==
  /\ last.status = 400
  /\ "details" \in DOMAIN last.body
  /\ "errors" \in DOMAIN last.body.details
  /\ \A f \in fields :
       \E i \in 1..Len(last.body.details.errors) :
         /\ {"field", "message", "code"} \subseteq DOMAIN last.body.details.errors[i]
         /\ last.body.details.errors[i].field = f

\* the fields of an upload that break a rule: the handler's own rule that the
\* title is not blank (line 211) and the rules of documentUploadSchema
ViolatedUploadFields(data) ==
  LET title == IF getFieldValue(data, "title") # <<>> THEN getFieldValue(data, "title")
               ELSE data.filename
      description == getFieldValue(data, "description")
  IN (IF trim(title) = <<>> THEN {"title"} ELSE {}) \cup
     ViolatedFields(documentUploadSchema([title |-> title, description |-> description,
                                          isPublic |-> FALSE]))

\* C26: a Register or Upload request that breaks rules on several fields at
\* once gets one 400 reply whose details.errors lists every violated field
\* with field, message and code.
C26_AggregateValidation ==
  /\ (Replied("register") /\ Cardinality(ViolatedFields(registerSchema(last.req))) > 1)
       => ListsEveryField(ViolatedFields(registerSchema(last.req)))
  /\ ( /\ Replied("upload")
       /\ Requester.ok
       /\ last.req.data # NoFile
       /\ last.req.data.filename # <<>>
       /\ ~last.req.fault.storage
       /\ ~last.req.fault.ocr
       /\ Cardinality(ViolatedUploadFields(last.req.data)) > 1 )
       => ListsEveryField(ViolatedUploadFields(last.req.data))

\* a step in which a request is answered
Answered(op, status) ==
  last = None /\ last' # None /\ last'.op = op /\ last'.status = status

\* C27: a Register answered 201 adds exactly one user and an Upload answered
\* 201 adds exactly one document owned by the requester; every other step
\* leaves the user store and the document store as they were; every
\* document's userId is the id of a user.
C27_FrameStep ==
  /\ users \subseteq users'
  /\ documents \subseteq documents'
  /\ (users' # users) <=> Answered("register", 201)
  /\ (users' # users) =>
       /\ Cardinality(users' \ users) = 1
       /\ \A u \in users' \ users : u.email = last'.req.email
       /\ documents' = documents
  /\ (documents' # documents) <=> Answered("upload", 201)
  /\ (documents' # documents) =>
       /\ Cardinality(documents' \ documents) = 1
       /\ \A d \in documents' \ documents :
            d.userId = authenticate(last'.req.header, last'.at).user.id
       /\ users' = users
  /\ \A d \in documents' : \E u \in users' : u.id = d.userId

C27_FrameEffects == [][C27_FrameStep]_vars

\* C27 witness: the second user's upload was answered 201 and the document
\* belongs to that user.
C27_Witness ==
  /\ Replied("upload")
  /\ last.status = 201
  /\ Cardinality(users) = 2
  /\ \E d \in documents : d.id = last.body.data.document.id /\ d.userId = Requester.user.id
  /\ \E d \in documents : d.userId # Requester.user.id

\* the rows of the documents a reply shows
ShownRows(ids) == {d \in documents : d.id \in ids}

\* C29: every document has isPublic = false, and the documents a GetDocument
\* or SearchDocuments reply shows all belong to the requester.
C29_AllDocumentsPrivate ==
  /\ \A d \in documents : ~d.isPublic
  /\ (Replied("get") /\ last.status = 200)
       => \A d \in ShownRows({last.body.id}) : d.userId = Requester.user.id
  /\ (Replied("search") /\ last.status = 200)
       => \A d \in ShownRows({last.body.data.documents[i].id :
                                i \in DOMAIN last.body.data.documents}) :
            d.userId = Requester.user.id

\* no store action is waiting for its response
NoActionInFlight == \A a \in StoreActions : inFlight[a] = None

\* C30: whenever no store action is in flight, isAuthenticated is true if and
\* only if the store holds a token and localStorage holds a token; and the
\* step in which logout completes leaves the store unauthenticated with user
\* and token null.
C30_StoreConsistency ==
  /\ [](NoActionInFlight =>
          (useAuthStore.isAuthenticated <=>
             (useAuthStore.token # None /\ localStorage # None)))
  /\ [][(inFlight["logout"] # None /\ inFlight'["logout"] = None) =>
          /\ ~useAuthStore'.isAuthenticated
          /\ useAuthStore'.user = None
          /\ useAuthStore'.token = None]_vars

====
